---- MODULE Spec2Model ----
(***************************************************************************)
(* Model of the covered-call decision engine: option cleaning              *)
(* (options/cleaning.py), strike selection (optimizer/choose_strike.py)    *)
(* with its delta and surface helpers (options/greeks.py,                  *)
(* options/iv_surface.py) and the barrier probabilities                    *)
(* (montecarlo/breach.py).                                                 *)
(*                                                                         *)
(* Fixed-point units: money in mills (1/1000 dollar); probabilities and    *)
(* delta in 1/1000; relative spreads in 1/10000; volatilities in percent;  *)
(* logarithms in 1/10000; time in days (T_years = days/365).               *)
(***************************************************************************)
EXTENDS Integers, Sequences, FiniteSets, TLC

VARIABLES pc, group, clean_group, reclean_group, cfg, p_otm_dict, res_df,
          svi_params, rec, prices, strike, vol_daily, dte_days, probs,
          bridge_args, touch_prob,
          daily, intraday, current_price, zone_width, recluster_df,
          np_random, garch, sim_call, sim_prices, sim_prices_again,
          optimizer, opts, exp_i, recommendations, out_file,
          delta_args, delta

vars == <<pc, group, clean_group, reclean_group, cfg, p_otm_dict, res_df,
          svi_params, rec, prices, strike, vol_daily, dte_days, probs,
          bridge_args, touch_prob,
          daily, intraday, current_price, zone_width, recluster_df,
          np_random, garch, sim_call, sim_prices, sim_prices_again,
          optimizer, opts, exp_i, recommendations, out_file,
          delta_args, delta>>

optVars == <<group, clean_group, reclean_group, cfg, p_otm_dict, res_df,
             svi_params, rec>>

mcVars == <<prices, strike, vol_daily, dte_days, probs>>

bridgeVars == <<bridge_args, touch_prob>>

deltaVars == <<delta_args, delta>>

\* the inputs of detect_resistance and a second clustering of its output
resVars == <<daily, intraday, current_price, zone_width, recluster_df>>

\* numpy's global generator, the fitted model, and two calls of simulate_paths
simVars == <<np_random, garch, sim_call, sim_prices, sim_prices_again>>

\* what least_squares did in fit_svi
fitVars == <<optimizer>>

\* the option chain by expiry, the loop's position, the recommendations so far
\* and the file written at the end of the run
runVars == <<opts, exp_i, recommendations, out_file>>

\* the variables of the other operations
auxVars == <<bridgeVars, deltaVars, resVars, simVars, fitVars, runVars>>

(***************************************************************************)
(* Values of the data frames' cells.                                       *)
(***************************************************************************)
\* a missing cell (numpy NaN) of a numeric column
NaN == -1

\* the lastPrice cell of a frame that has no lastPrice column
NoColumn == -2

\* Python's None (also what select_strike returns without a recommendation)
None == [kind |-> "None"]

Abs(x) == IF x < 0 THEN 0 - x ELSE x

Max(a, b) == IF a >= b THEN a ELSE b

SeqRange(s) == {s[i] : i \in 1..Len(s)}

\* every sequence over S of length at most n
RECURSIVE SeqsUpTo(_, _)
SeqsUpTo(S, n) ==
    IF n = 0 THEN {<<>>}
    ELSE LET shorter == SeqsUpTo(S, n - 1)
         IN  shorter \cup {Append(s, x) : s \in {t \in shorter : Len(t) = n - 1}, x \in S}

(***************************************************************************)
(* numpy / scipy numerics in fixed point.                                  *)
(***************************************************************************)
\* floor of the square root, by bisection on [lo, hi)
RECURSIVE SqrtBisect(_, _, _)
SqrtBisect(n, lo, hi) ==
    IF hi - lo <= 1 THEN lo
    ELSE LET m == (lo + hi) \div 2
         IN  IF m * m <= n THEN SqrtBisect(n, m, hi) ELSE SqrtBisect(n, lo, m)

\* np.sqrt on a non-negative integer
ISqrt(n) == SqrtBisect(n, 0, 46341)

\* np.log(num / den), in 1/10000, for num >= den > 0: 2*atanh(z), z = (num-den)/(num+den)
LogUp(num, den) ==
    LET z  == ((num - den) * 10000) \div (num + den)
        z2 == (z * z) \div 10000
        z3 == (z2 * z) \div 10000
        z5 == (z3 * z2) \div 10000
    IN  2 * (z + z3 \div 3 + z5 \div 5)

\* np.log(num / den), in 1/10000, for num, den > 0
LogRatio(num, den) == IF num >= den THEN LogUp(num, den) ELSE 0 - LogUp(den, num)

\* the standard normal cdf at 0, 0.25, ..., 3.0, in 1/1000
NormTable == <<500, 599, 691, 773, 841, 894, 933, 960, 977, 988, 994, 997, 999>>

\* norm.cdf(d/1000) in 1/1000 for d >= 0: linear between the table's points
NormCdfUp(d) ==
    IF d >= 3000 THEN 1000
    ELSE LET i == d \div 250
             lo == NormTable[i + 1]
             hi == IF i + 2 <= Len(NormTable) THEN NormTable[i + 2] ELSE 1000
         IN  lo + ((hi - lo) * (d - 250 * i)) \div 250

\* scipy.stats.norm.cdf(d/1000), in 1/1000
NormCdf(d) == IF d >= 0 THEN NormCdfUp(d) ELSE 1000 - NormCdfUp(0 - d)

\* np.exp(-y/1000), in 1/1000, for y >= 0
RECURSIVE ExpNeg(_)
ExpNeg(y) ==
    IF y >= 12000 THEN 0
    ELSE IF y >= 250 THEN (779 * ExpNeg(y - 250)) \div 1000
    ELSE 1000 - y + (y * y) \div 2000

(***************************************************************************)
(* config.py: the defaults of Config.                                      *)
(***************************************************************************)
\* p_target_min = 0.58
PTargetMinDefault == 580
\* commission_fee = 2.0 dollars
CommissionFeeDefault == 2
\* min_premium_abs = 4.0 dollars
MinPremiumAbsDefault == 4
\* max_delta = 0.5
MaxDeltaDefault == 500
\* touch_cap = 0.5
TouchCapDefault == 500
\* min_oi = 10
MinOiDefault == 10
\* liquidity_spread_thresh = 0.05
SpreadThreshDefault == 500
\* liquidity_crossing_factor = 0.2, in tenths
CrossingFactorDefault == 2
\* lambda_res = 0.5, in tenths
LambdaResDefault == 5
\* lambda_risk = 1.0, in tenths
LambdaRiskDefault == 10

Config ==
    [p_target_min |-> PTargetMinDefault,
     commission_fee |-> CommissionFeeDefault,
     min_premium_abs |-> MinPremiumAbsDefault,
     max_delta |-> MaxDeltaDefault,
     touch_cap |-> TouchCapDefault,
     min_oi |-> MinOiDefault,
     liquidity_spread_thresh |-> SpreadThreshDefault,
     liquidity_crossing_factor |-> CrossingFactorDefault,
     lambda_res |-> LambdaResDefault,
     lambda_risk |-> LambdaRiskDefault]

(***************************************************************************)
(* options/cleaning.py                                                     *)
(***************************************************************************)
\* clean_options' default min_mid = 0.05
MinMidDefault == 50

\* Series.fillna(0)
FillNa(x) == IF x = NaN THEN 0 ELSE x

\* mutation of CleanRow: rel_spread divides by the mid the row arrived with
CleanRowStaleMid(r) ==
    LET oi   == FillNa(r.openInterest)
        bid0 == FillNa(r.bid)
        ask0 == FillNa(r.ask)
        last == IF r.lastPrice = NoColumn THEN 0 ELSE FillNa(r.lastPrice)
        missing_quotes == bid0 <= 0 /\ ask0 <= 0 /\ last > 0
        bid  == IF missing_quotes THEN last ELSE bid0
        ask  == IF missing_quotes THEN last ELSE ask0
    IN  [side |-> r.side, strike |-> r.strike, expiration |-> r.expiration,
         dte |-> r.dte, underlying_price |-> r.underlying_price,
         impliedVolatility |-> r.impliedVolatility,
         openInterest |-> oi, bid |-> bid, ask |-> ask, lastPrice |-> last,
         mid |-> (bid + ask) \div 2, spread |-> ask - bid,
         rel_spread |-> IF r.mid > 0 THEN ((ask - bid) * 10000) \div r.mid ELSE 0]

\* steps 1-3 of clean_options on one row: fill, fall back to lastPrice, recompute
CleanRow(r) ==
    LET oi   == FillNa(r.openInterest)
        bid0 == FillNa(r.bid)
        ask0 == FillNa(r.ask)
        last == IF r.lastPrice = NoColumn THEN 0 ELSE FillNa(r.lastPrice)
        missing_quotes == bid0 <= 0 /\ ask0 <= 0 /\ last > 0
        bid  == IF missing_quotes THEN last ELSE bid0
        ask  == IF missing_quotes THEN last ELSE ask0
        mid  == (bid + ask) \div 2
        spread == ask - bid
    IN  [side |-> r.side, strike |-> r.strike, expiration |-> r.expiration,
         dte |-> r.dte, underlying_price |-> r.underlying_price,
         impliedVolatility |-> r.impliedVolatility,
         openInterest |-> oi, bid |-> bid, ask |-> ask, lastPrice |-> last,
         mid |-> mid, spread |-> spread,
         rel_spread |-> IF mid > 0 THEN (spread * 10000) \div mid ELSE 0]

\* mutation of CleanMask: the crossed-quote mask is left out of the combination
CleanMaskCrossed(r, min_oi, min_mid) ==
    /\ r.bid > 0
    /\ r.ask > 0
    /\ r.mid >= min_mid
    /\ r.openInterest >= min_oi

\* step 4 of clean_options: the combined mask on a recomputed row
CleanMask(r, min_oi, min_mid) ==
    /\ r.bid > 0
    /\ r.ask > 0
    /\ r.bid <= r.ask
    /\ r.mid >= min_mid
    /\ r.openInterest >= min_oi

\* df[mask].reset_index(drop=True) on the recomputed frame
clean_options(df, min_oi, min_mid) ==
    LET filled == [i \in 1..Len(df) |-> CleanRow(df[i])]
        Keep(r) == CleanMask(r, min_oi, min_mid)
    IN  SelectSeq(filled, Keep)

(***************************************************************************)
(* options/greeks.py                                                       *)
(***************************************************************************)
\* risk_free=0.04 as select_strike passes it, in percent
RiskFreePct == 4

\* sqrt(T_years) in 1/1000, T_years = days/365
SqrtYears(days) == ISqrt((days * 1000000) \div 365)

\* d1 of Black-Scholes in 1/1000, for vol > 0 and days > 0
D1(spot, K, days, vol) ==
    LET drift == ((200 * RiskFreePct + vol * vol) * days) \div 730
        num   == LogRatio(spot, K) + drift
    IN  (num * 10000) \div (vol * SqrtYears(days))

\* calculate_delta with the volatility test ahead of the expiry test
calculate_delta_VolFirst(spot, K, days, vol) ==
    IF vol <= 0 THEN (IF spot > K THEN 1000 ELSE 0)
    ELSE IF days <= 0 THEN 0
    ELSE NormCdf(D1(spot, K, days, vol))

\* calculate_delta(spot, strike, time_to_maturity, risk_free, vol), in 1/1000
calculate_delta(spot, K, days, vol) ==
    IF days <= 0 THEN 0
    ELSE IF vol <= 0 THEN (IF spot > K THEN 1000 ELSE 0)
    ELSE NormCdf(D1(spot, K, days, vol))

(***************************************************************************)
(* options/iv_surface.py                                                   *)
(***************************************************************************)
\* svi_raw(k, a, b, rho, m, sigma): total variance, all in 1/10000
svi_raw(k, params) ==
    LET km == k - params.m
        root == ISqrt(km * km + params.sigma * params.sigma)
        inner == (params.rho * km) \div 10000 + root
    IN  params.a + (params.b * inner) \div 10000

\* get_iv_from_surface(strike, T, spot, params): implied volatility in percent
get_iv_from_surface(K, days, spot, params) ==
    IF params = None THEN None
    ELSE LET w == svi_raw(LogRatio(K, spot), params)
         IN  IF w < 0 THEN 0 ELSE ISqrt((w * 365) \div days)

(***************************************************************************)
(* optimizer/choose_strike.py                                              *)
(***************************************************************************)
\* the zombie-quote floor on the bid, 0.05 dollars
ZombieBid == 50

\* the wide-spread threshold on (ask - bid) / bid, 0.5, in percent
WideSpreadPct == 50

\* the synthetic resistance when none is above spot: spot * 1.10, in percent
FallbackResPct == 110

\* its strength 1.0, in tenths
FallbackResStrength == 10

\* calls = df_opts[df_opts['side'] == 'call']
CallsOf(df_opts) == SelectSeq(df_opts, LAMBDA r : r.side = "call")

\* mutation of ResCandidates: the filter on level > spot is lost
ResCandidatesUnfiltered(resistance_df, spot) == resistance_df

\* res_candidates = resistance_df[resistance_df['level'] > spot]
ResCandidates(resistance_df, spot) == SelectSeq(resistance_df, LAMBDA z : z.level > spot)

\* the resistance row used: res_candidates.iloc[0], or the synthetic level
ImmediateResistance(resistance_df, spot) ==
    LET res_candidates == ResCandidates(resistance_df, spot)
    IN  IF res_candidates = <<>>
        THEN [level |-> (spot * FallbackResPct) \div 100, strength |-> FallbackResStrength]
        ELSE [level |-> res_candidates[1].level, strength |-> res_candidates[1].strength]

\* K <= spot: continue
AboveSpot(row, spot) == ~(row.strike <= spot)

\* the liquidity filter: oi = row.get('openInterest', 0), NaN read as 0
LiquidityOk(row, config) ==
    LET oi == IF row.openInterest = NaN THEN 0 ELSE row.openInterest
    IN  ~(oi < config.min_oi)

\* the zombie filter: row['bid'] < 0.05 rejects
ZombieOk(row) == ~(row.bid < ZombieBid)

\* mutation of SpreadOk: the spread is taken relative to the mid, not the bid
SpreadOkOnMid(row) ==
    ~(row.bid > 0 /\ (row.ask - row.bid) * 100 > WideSpreadPct * row.mid)

\* the spread filter: if bid > 0, (ask - bid) / bid > 0.5 rejects
SpreadOk(row) ==
    ~(row.bid > 0 /\ (row.ask - row.bid) * 100 > WideSpreadPct * row.bid)

\* mutation of EffectivePrice: every fill at the mid
EffectivePriceAtMid(row, config) == row.mid

\* effective_price in mills: mid below the spread threshold, else bid + factor * spread
EffectivePrice(row, config) ==
    LET rel_spread == IF row.rel_spread = NaN THEN 0 ELSE row.rel_spread
    IN  IF rel_spread < config.liquidity_spread_thresh
        THEN row.mid
        ELSE row.bid + (config.liquidity_crossing_factor * row.spread) \div 10

\* net_premium = effective_price * 100 - commission_fee, in tenths of a dollar
NetPremium(row, config) == EffectivePrice(row, config) - 10 * config.commission_fee

\* net_premium < min_premium_abs rejects
PremiumOk(row, config) == ~(NetPremium(row, config) < 10 * config.min_premium_abs)

\* dte = max(row['dte'], 1)
Dte(row) == Max(row.dte, 1)

\* the probability gates: K in p_otm_dict, p_lcb >= p_target_min, touch cap
ProbOk(row, p_dict, config) ==
    /\ row.strike \in DOMAIN p_dict
    /\ ~(p_dict[row.strike][2] < config.p_target_min)
    /\ ~(config.touch_cap # 0 /\ p_dict[row.strike][3] > config.touch_cap)

\* mutation of ModelIv: the row's quoted volatility even when a surface is given
ModelIvQuoted(row, spot, svi) == row.impliedVolatility

\* model_iv: the surface's volatility when svi_params is given, else the row's
ModelIv(row, spot, svi) ==
    IF svi # None
    THEN get_iv_from_surface(row.strike, Dte(row), spot, svi)
    ELSE row.impliedVolatility

\* delta = calculate_delta(spot, K, T_years, risk_free=0.04, vol=model_iv)
Delta(row, spot, svi) == calculate_delta(spot, row.strike, Dte(row), ModelIv(row, spot, svi))

\* delta > max_delta rejects
DeltaOk(row, spot, config, svi) == ~(Delta(row, spot, svi) > config.max_delta)

\* yld * spot * dte: net premium per share over a year
YieldNum(row, config) == NetPremium(row, config) * 365

\* score * spot * dte * 1000, spot in mills: yld - lambda_res*dist_res/spot - lambda_risk*delta
Score(row, spot, res_level, config, svi) ==
    YieldNum(row, config) * 1000
    - config.lambda_res * Abs(row.strike - res_level) * Dte(row) * 100
    - config.lambda_risk * Delta(row, spot, svi) * (spot \div 10) * Dte(row)

\* a row reaches candidates.append
Survives(row, spot, p_dict, config, svi) ==
    /\ AboveSpot(row, spot)
    /\ LiquidityOk(row, config)
    /\ ZombieOk(row)
    /\ SpreadOk(row)
    /\ PremiumOk(row, config)
    /\ ProbOk(row, p_dict, config)
    /\ DeltaOk(row, spot, config, svi)

\* the dict appended for a surviving row
Candidate(row, spot, p_dict, res, config, svi) ==
    [strike |-> row.strike, expiration |-> row.expiration, type |-> "call",
     bid |-> row.bid, ask |-> row.ask, mid |-> row.mid,
     effective_price |-> EffectivePrice(row, config),
     net_premium |-> NetPremium(row, config),
     p_otm |-> p_dict[row.strike][1], p_lcb |-> p_dict[row.strike][2],
     p_touch |-> p_dict[row.strike][3],
     model_iv |-> ModelIv(row, spot, svi), delta |-> Delta(row, spot, svi),
     resistance |-> res.level, res_strength |-> res.strength,
     dist_res |-> Abs(row.strike - res.level),
     yield |-> YieldNum(row, config),
     score |-> Score(row, spot, res.level, config, svi)]

\* the candidates list after the loop over calls.iterrows()
Candidates(df_opts, p_dict, resistance_df, config, svi) ==
    LET calls == CallsOf(df_opts)
        spot  == calls[1].underlying_price
        res   == ImmediateResistance(resistance_df, spot)
        kept  == SelectSeq(calls, LAMBDA r : Survives(r, spot, p_dict, config, svi))
    IN  [i \in 1..Len(kept) |-> Candidate(kept[i], spot, p_dict, res, config, svi)]

\* mutation of BestOf: the sort ascending, so the lowest score comes first
BestOfAscending(candidates) ==
    {c \in SeqRange(candidates) : \A d \in SeqRange(candidates) : c.score <= d.score}

\* df_cand.sort_values('score', ascending=False).iloc[0]: a row of the highest score
BestOf(candidates) ==
    {c \in SeqRange(candidates) : \A d \in SeqRange(candidates) : c.score >= d.score}

\* select_strike: the outcomes it can end with (a recommendation, None, or the
\* IndexError of calls[...].iloc[0] on a frame without call rows)
select_strike(df_opts, p_dict, resistance_df, config, svi) ==
    IF df_opts = <<>> THEN {None}
    ELSE IF CallsOf(df_opts) = <<>> THEN {[kind |-> "IndexError"]}
    ELSE LET candidates == Candidates(df_opts, p_dict, resistance_df, config, svi)
         IN  IF candidates = <<>> THEN {None}
             ELSE {[kind |-> "rec", best |-> b] : b \in BestOf(candidates)}

(***************************************************************************)
(* montecarlo/breach.py                                                    *)
(***************************************************************************)
\* vol_annual ** 2 in 1/1000000, vol_annual = vol_daily * sqrt(365), vol_daily in 1/1000
VolAnnualSq(vd) == vd * vd * 365

\* mutation of brownian_bridge_touch: the zero-volatility check comes first
brownian_bridge_touch_ZeroVolFirst(S_start, S_end, Barrier, sigma_sq, days) ==
    IF sigma_sq = 0 THEN 0
    ELSE IF S_start >= Barrier \/ S_end >= Barrier THEN 1000
    ELSE LET b_x0 == LogRatio(Barrier, S_start)
             b_xT == LogRatio(Barrier, S_end)
         IN  ExpNeg((20 * b_x0 * b_xT) \div ((sigma_sq * days) \div 365))

\* brownian_bridge_touch(S_start, S_end, Barrier, sigma, dt) in 1/1000; sigma is
\* given squared, dt in days: sigma**2 * dt = sigma_sq * days / 365
brownian_bridge_touch(S_start, S_end, Barrier, sigma_sq, days) ==
    IF S_start >= Barrier \/ S_end >= Barrier THEN 1000
    ELSE IF sigma_sq = 0 THEN 0
    ELSE LET b_x0 == LogRatio(Barrier, S_start)
             b_xT == LogRatio(Barrier, S_end)
         IN  ExpNeg((20 * b_x0 * b_xT) \div ((sigma_sq * days) \div 365))

\* the discrete maximum of one path, from -inf
RECURSIVE PathMaxFrom(_, _, _)
PathMaxFrom(path, j, path_max) ==
    IF j > Len(path) THEN path_max
    ELSE PathMaxFrom(path, j + 1, IF path[j] > path_max THEN path[j] ELSE path_max)

PathMax(path) == PathMaxFrom(path, 1, 0 - 1)

\* mutation of Touched: the discrete check compares strictly
TouchedStrictly(path, K) == PathMax(path) > K

\* the discrete check of _bridge_loop: path_max >= strike
Touched(path, K) == PathMax(path) >= K

\* mutation of PathTouch: no discrete check, and a bridge that looks at sigma
\* before the endpoints
PathTouchBridgeOnly(path, K, days, sigma_sq) ==
    brownian_bridge_touch_ZeroVolFirst(path[1], path[Len(path)], K, sigma_sq, days)

\* what one path adds to total_touch_prob, in 1/1000
PathTouch(path, K, days, sigma_sq) ==
    IF Touched(path, K) THEN 1000
    ELSE brownian_bridge_touch(path[1], path[Len(path)], K, sigma_sq, days)

RECURSIVE TotalTouch(_, _, _, _, _)
TotalTouch(paths, i, K, days, sigma_sq) ==
    IF i > Len(paths) THEN 0
    ELSE PathTouch(paths[i], K, days, sigma_sq) + TotalTouch(paths, i + 1, K, days, sigma_sq)

\* _bridge_loop(prices, strike, T_years, vol_annual): total_touch_prob / n_paths
bridge_loop(paths, K, days, sigma_sq) ==
    TotalTouch(paths, 1, K, days, sigma_sq) \div Len(paths)

\* mutation of ItmCount: a path ending at the strike counts as in the money
ItmCountAtOrAbove(paths, K) ==
    Cardinality({i \in 1..Len(paths) : paths[i][Len(paths[i])] >= K})

\* the paths that end in the money: final_prices > strike
ItmCount(paths, K) == Cardinality({i \in 1..Len(paths) : paths[i][Len(paths[i])] > K})

\* calculate_probabilities(prices, strike, T_years, vol_daily): (p_otm, se_otm, p_touch)
calculate_probabilities(paths, K, days, vd) ==
    LET n_paths == Len(paths)
        p_itm == (1000 * ItmCount(paths, K)) \div n_paths
        p_otm == 1000 - p_itm
    IN  [p_otm |-> p_otm,
         se_otm |-> ISqrt((p_otm * (1000 - p_otm)) \div n_paths),
         p_touch |-> bridge_loop(paths, K, days, VolAnnualSq(vd))]

(***************************************************************************)
(* The inputs swept: one expiry's option group as the feed stamps it       *)
(* (one expiration, one dte and one underlying price for every row).       *)
(***************************************************************************)
\* rows of an option group, at most
MaxRows == 2

\* rows of a resistance table, at most
MaxRes == 2

SpotSet == {100000}

StrikeSet == {100000, 101000, 110000}

DteSet == {0, 7}

IvSet == {30, 150}

\* quotes [bid, ask, lastPrice, openInterest, mid as it arrives]
Quote(b, a, l, oi, m) == [bid |-> b, ask |-> a, lastPrice |-> l, openInterest |-> oi, mid |-> m]

TightQuote == Quote(1000, 1020, 1010, 100, 1010)

CrossedQuote == Quote(1200, 1000, 1100, 100, 1100)

\* quotes that reach each gate of select_strike, and one the cleaner drops
GateQuotes ==
    {TightQuote,
     Quote(1000, 1100, 1050, 100, 1050),
     Quote(100, 160, 130, 100, 130),
     Quote(40, 60, 50, 100, 50),
     Quote(50, 60, 50, 100, 55),
     CrossedQuote}

\* quotes that reach each branch of clean_options
FeedQuotes ==
    {Quote(1000, 1100, NoColumn, 100, 1050),
     Quote(1200, 1000, NoColumn, 100, 1100),
     Quote(0, 500, NoColumn, 100, 250),
     Quote(0, 0, NoColumn, 100, 0),
     Quote(40, 60, NoColumn, 100, 0),
     Quote(40, 50, NoColumn, NaN, 45),
     Quote(1000, 1100, 0, 5, 1050),
     Quote(0, 0, 1000, 100, 0),
     Quote(0, 0, 0, 100, 0),
     Quote(0, 0, NaN, 100, 0),
     Quote(NaN, NaN, 1000, 10, 0),
     Quote(NaN, 1000, 1000, 100, 0),
     Quote(0, 0, 40, 100, 0),
     Quote(1200, 1000, 1100, NaN, 1100),
     Quote(1000, 1000, NaN, 9, 900)}

\* one row of the feed's frame
Row(side, K, q, iv, d, spot) ==
    [side |-> side, strike |-> K, expiration |-> "exp", dte |-> d,
     underlying_price |-> spot, impliedVolatility |-> iv,
     openInterest |-> q.openInterest, bid |-> q.bid, ask |-> q.ask,
     lastPrice |-> q.lastPrice, mid |-> q.mid]

\* a frame has the lastPrice column in every row or in none
ColumnsAgree(df) ==
    \/ \A i \in 1..Len(df) : df[i].lastPrice = NoColumn
    \/ \A i \in 1..Len(df) : df[i].lastPrice # NoColumn

\* the groups whose quotes sweep the quote gates
QuoteRows(d, spot) ==
    {Row("call", K, q, 30, d, spot) : K \in StrikeSet, q \in GateQuotes}
    \cup {Row("put", 110000, q, 30, d, spot) : q \in {TightQuote, CrossedQuote}}

\* the groups whose strikes and volatilities sweep the probability and risk gates
RiskRows(d, spot) ==
    {Row("call", K, TightQuote, iv, d, spot) : K \in StrikeSet \ SpotSet, iv \in IvSet}

\* the groups of raw feed rows
FeedRows(d, spot) ==
    {Row("call", 110000, q, 30, d, spot) : q \in FeedQuotes}

\* (p_otm, p_lcb, p_touch) in 1/1000
PTriples == {<<800, 700, 300>>, <<600, 500, 300>>, <<800, 700, 600>>}

\* probability tables over some of the strikes
PTables(strikes) ==
    UNION {[S -> PTriples] : S \in SUBSET strikes}

\* resistance rows [level, strength in tenths]
ResRows ==
    {[level |-> 99000, strength |-> 8], [level |-> 104000, strength |-> 18],
     [level |-> 120000, strength |-> 10]}

\* detect_resistance returns its levels sorted ascending
Ascending(t) == \A i \in 1..(Len(t) - 1) : t[i].level < t[i + 1].level

ResTables == {t \in SeqsUpTo(ResRows, MaxRes) : Ascending(t)}

\* surface parameters (a, b, rho, m, sigma) in 1/10000: the fit's initial guess and a flat low one
SviSet ==
    {[a |-> 400, b |-> 1000, rho |-> 0 - 5000, m |-> 0, sigma |-> 1000],
     [a |-> 20, b |-> 100, rho |-> 0, m |-> 0, sigma |-> 1000]}

\* the variables of the Monte-Carlo side, at rest
McIdle ==
    /\ prices = <<>>
    /\ strike = 0
    /\ vol_daily = 0
    /\ dte_days = 0
    /\ probs = None

\* no call of brownian_bridge_touch under way
BridgeIdle ==
    /\ bridge_args = None
    /\ touch_prob = None

\* no call of detect_resistance under way
ResIdle ==
    /\ daily = <<>>
    /\ intraday = <<>>
    /\ current_price = 0
    /\ zone_width = 0
    /\ recluster_df = <<>>

\* no simulation under way
SimIdle ==
    /\ np_random = 0
    /\ garch = None
    /\ sim_call = None
    /\ sim_prices = <<>>
    /\ sim_prices_again = <<>>

\* no surface fit under way
FitIdle == optimizer = None

\* no analysis run under way
RunIdle ==
    /\ opts = <<>>
    /\ exp_i = 0
    /\ recommendations = <<>>
    /\ out_file = None

\* the variables of the other operations, at rest
DeltaIdle ==
    /\ delta_args = None
    /\ delta = None

AuxIdle == BridgeIdle /\ DeltaIdle /\ ResIdle /\ SimIdle /\ FitIdle /\ RunIdle

\* the variables of the optimizer side, at rest
OptIdle ==
    /\ group = <<>>
    /\ clean_group = <<>>
    /\ reclean_group = <<>>
    /\ cfg = Config
    /\ p_otm_dict = <<>>
    /\ res_df = <<>>
    /\ svi_params = None
    /\ rec = None

(***************************************************************************)
(* Cleaning then selecting, as cli.main does for one expiry.               *)
(***************************************************************************)
\* groups sweeping the quote gates; the other inputs at one value
InitQuotes ==
    /\ \E spot \in SpotSet :
          group \in SeqsUpTo(QuoteRows(7, spot), MaxRows)
    /\ cfg \in {[Config EXCEPT !.liquidity_crossing_factor = f] : f \in {0, 2, 5}}
    /\ p_otm_dict = [K \in StrikeSet \ SpotSet |-> IF K = 101000 THEN <<700, 650, 400>>
                                                    ELSE <<900, 880, 100>>]
    /\ res_df = <<[level |-> 104000, strength |-> 18]>>
    /\ svi_params = None

\* groups sweeping the probability and risk gates, with their tables
InitRisk ==
    /\ \E spot \in SpotSet, d \in DteSet :
          group \in SeqsUpTo(RiskRows(d, spot), MaxRows)
    /\ cfg \in {[Config EXCEPT !.touch_cap = c] : c \in {0, TouchCapDefault}}
    /\ p_otm_dict \in PTables(StrikeSet \ SpotSet)
    /\ res_df \in ResTables
    /\ svi_params \in {None} \cup SviSet

Init ==
    /\ pc = "raw"
    /\ InitQuotes \/ InitRisk
    /\ clean_group = <<>>
    /\ reclean_group = <<>>
    /\ rec = None
    /\ McIdle
    /\ AuxIdle

\* cli.main: clean_group = clean_options(group, min_oi=cfg.min_oi)
Clean ==
    /\ pc = "raw"
    /\ clean_group' = clean_options(group, cfg.min_oi, MinMidDefault)
    /\ pc' = "cleaned"
    /\ UNCHANGED <<group, reclean_group, cfg, p_otm_dict, res_df, svi_params, rec>>
    /\ UNCHANGED mcVars
    /\ UNCHANGED auxVars

\* rec = select_strike(clean_group, p_otm_dict, res_df, cfg, svi_params)
Select ==
    /\ pc = "cleaned"
    /\ rec' \in select_strike(clean_group, p_otm_dict, res_df, cfg, svi_params)
    /\ pc' = "selected"
    /\ UNCHANGED <<group, clean_group, reclean_group, cfg, p_otm_dict, res_df, svi_params>>
    /\ UNCHANGED mcVars
    /\ UNCHANGED auxVars

Next == Clean \/ Select

Spec == Init /\ [][Next]_vars

(***************************************************************************)
(* Cleaning a feed frame, and cleaning the result again.                   *)
(***************************************************************************)
InitClean ==
    /\ pc = "raw"
    /\ \E spot \in SpotSet :
          group \in {g \in SeqsUpTo(FeedRows(7, spot), MaxRows) : ColumnsAgree(g)}
    /\ cfg = Config
    /\ p_otm_dict = <<>>
    /\ res_df = <<>>
    /\ svi_params = None
    /\ clean_group = <<>>
    /\ reclean_group = <<>>
    /\ rec = None
    /\ McIdle
    /\ AuxIdle

\* clean_options applied to its own output
Reclean ==
    /\ pc = "cleaned"
    /\ reclean_group' = clean_options(clean_group, cfg.min_oi, MinMidDefault)
    /\ pc' = "recleaned"
    /\ UNCHANGED <<group, clean_group, cfg, p_otm_dict, res_df, svi_params, rec>>
    /\ UNCHANGED mcVars
    /\ UNCHANGED auxVars

NextClean == Clean \/ Reclean

SpecClean == InitClean /\ [][NextClean]_vars

(***************************************************************************)
(* Claims about select_strike (checked under Spec).                        *)
(***************************************************************************)
Selected == pc = "selected"

Recommended == pc = "selected" /\ rec.kind = "rec"

\* the spot select_strike reads: the first call row's underlying price
SpotOf(df) == IF CallsOf(df) = <<>> THEN 0 ELSE CallsOf(df)[1].underlying_price

\* the call rows of the cleaned group that pass every gate
Survivors ==
    {i \in 1..Len(clean_group) :
        /\ clean_group[i].side = "call"
        /\ Survives(clean_group[i], SpotOf(clean_group), p_otm_dict, cfg, svi_params)}

\* the resistance level the recommendation reports, or the one select_strike would use
UsedResistance == ImmediateResistance(res_df, SpotOf(clean_group)).level

ScoreOfRow(i) == Score(clean_group[i], SpotOf(clean_group), UsedResistance, cfg, svi_params)

\* the recommendation was built from row i of the cleaned group
FromRow(i) ==
    /\ clean_group[i].side = "call"
    /\ clean_group[i].strike = rec.best.strike
    /\ clean_group[i].bid = rec.best.bid
    /\ clean_group[i].ask = rec.best.ask
    /\ clean_group[i].mid = rec.best.mid

\* C1: whenever at least one call passes every gate, the returned recommendation is
\* one of the survivors and its score is at least the score of every survivor.
C1_TopScoringSurvivor ==
    (Selected /\ Survivors # {}) =>
        /\ rec.kind = "rec"
        /\ \E i \in Survivors : FromRow(i) /\ rec.best.score = ScoreOfRow(i)
        /\ \A j \in Survivors : rec.best.score >= ScoreOfRow(j)

\* C1 witness: two survivors of different scores, the higher one returned
C1_Witness ==
    /\ Recommended
    /\ \E i, j \in Survivors : ScoreOfRow(i) > ScoreOfRow(j) /\ rec.best.score = ScoreOfRow(i)

\* C2: when no candidate survives all gates select_strike returns None and does not
\* raise, for the empty slice, a slice of rejected rows and a slice without call rows.
C2_NoSurvivorReturnsNone ==
    (Selected /\ Survivors = {}) => rec = None

\* C3: every recommendation has p_lcb >= p_target_min and p_touch <= touch_cap, for
\* every touch_cap (0 included), and its strike is in the probability table.
C3_ProbabilityGates ==
    Recommended =>
        /\ rec.best.strike \in DOMAIN p_otm_dict
        /\ rec.best.p_lcb >= cfg.p_target_min
        /\ rec.best.p_touch <= cfg.touch_cap

\* C4: every recommendation is a call row of the slice with strike > spot,
\* open interest >= min_oi, bid >= 0.05 and (ask - bid)/bid <= 0.5.
C4_QuoteGates ==
    Recommended =>
        \E i \in 1..Len(clean_group) :
            /\ FromRow(i)
            /\ rec.best.type = "call"
            /\ clean_group[i].strike > SpotOf(clean_group)
            /\ clean_group[i].openInterest >= cfg.min_oi
            /\ rec.best.bid >= ZombieBid
            /\ (rec.best.ask - rec.best.bid) * 100 <= WideSpreadPct * rec.best.bid

\* C4 witness: a recommendation out of a group that also held a call at or below
\* spot or a call with a wide spread
C4_Witness ==
    /\ Recommended
    /\ \E i \in 1..Len(clean_group) :
          /\ clean_group[i].side = "call"
          /\ \/ clean_group[i].strike <= SpotOf(clean_group)
             \/ (clean_group[i].ask - clean_group[i].bid) * 2 > clean_group[i].bid

\* C5: every recommendation has delta <= max_delta, the delta computed from the
\* surface's volatility at the strike when surface parameters are supplied and from
\* the row's quoted implied volatility when they are None.
C5_DeltaGate ==
    Recommended =>
        /\ rec.best.delta <= cfg.max_delta
        /\ \E i \in 1..Len(clean_group) :
              /\ FromRow(i)
              /\ rec.best.model_iv =
                    IF svi_params = None
                    THEN clean_group[i].impliedVolatility
                    ELSE get_iv_from_surface(rec.best.strike, Max(clean_group[i].dte, 1),
                                             SpotOf(clean_group), svi_params)
              /\ rec.best.delta =
                    calculate_delta(SpotOf(clean_group), rec.best.strike,
                                    Max(clean_group[i].dte, 1), rec.best.model_iv)

\* C5 witness: a recommendation priced off the surface although the row's own quoted
\* volatility would have put its delta above max_delta
C5_Witness ==
    /\ Recommended
    /\ svi_params # None
    /\ \E i \in 1..Len(clean_group) :
          /\ FromRow(i)
          /\ rec.best.model_iv # clean_group[i].impliedVolatility
          /\ calculate_delta(SpotOf(clean_group), rec.best.strike, Max(clean_group[i].dte, 1),
                             clean_group[i].impliedVolatility) > cfg.max_delta

\* the levels of the resistance table strictly above spot
LevelsAbove == {res_df[i].level : i \in {j \in 1..Len(res_df) : res_df[j].level > SpotOf(clean_group)}}

\* C6: the resistance in the score and in the recommendation is the smallest level
\* strictly above spot in the table, or spot*1.10 with strength 1.0 when there is
\* none; score = yield - lambda_res*|strike - level|/spot - lambda_risk*delta.
C6_NearestResistance ==
    Recommended =>
        /\ LevelsAbove = {} =>
              /\ rec.best.resistance * 100 = SpotOf(clean_group) * FallbackResPct
              /\ rec.best.res_strength = FallbackResStrength
        /\ LevelsAbove # {} =>
              /\ rec.best.resistance \in LevelsAbove
              /\ \A l \in LevelsAbove : rec.best.resistance <= l
        /\ rec.best.dist_res = Abs(rec.best.strike - rec.best.resistance)
        /\ \E i \in 1..Len(clean_group) :
              /\ FromRow(i)
              /\ rec.best.score =
                    rec.best.yield * 1000
                    - cfg.lambda_res * rec.best.dist_res * Max(clean_group[i].dte, 1) * 100
                    - cfg.lambda_risk * rec.best.delta * (SpotOf(clean_group) \div 10)
                        * Max(clean_group[i].dte, 1)

\* C6 witness: a table with a level below spot and two above it; the lower of the
\* two is reported
C6_Witness ==
    /\ Recommended
    /\ Cardinality(LevelsAbove) >= 1
    /\ \E i \in 1..Len(res_df) : res_df[i].level <= SpotOf(clean_group)
    /\ rec.best.resistance \in LevelsAbove

\* C6 witness of the fallback: no level above spot
C6_WitnessFallback ==
    /\ Recommended
    /\ res_df # <<>>
    /\ LevelsAbove = {}

\* C7: the effective price is the mid when the relative spread is strictly below
\* liquidity_spread_thresh and bid + liquidity_crossing_factor*spread otherwise;
\* net premium = 100*effective price - commission_fee and is never below
\* min_premium_abs; bid <= effective price <= mid for crossing factors in [0, 0.5].
C7_EffectivePrice ==
    Recommended =>
        \E i \in 1..Len(clean_group) :
            LET r == clean_group[i]
            IN  /\ FromRow(i)
                /\ rec.best.effective_price =
                      IF (r.ask - r.bid) * 10000 < cfg.liquidity_spread_thresh * r.mid
                      THEN r.mid
                      ELSE r.bid + (cfg.liquidity_crossing_factor * (r.ask - r.bid)) \div 10
                /\ rec.best.net_premium = rec.best.effective_price - 10 * cfg.commission_fee
                /\ rec.best.net_premium >= 10 * cfg.min_premium_abs
                /\ cfg.liquidity_crossing_factor \in 0..5 =>
                      /\ r.bid <= rec.best.effective_price
                      /\ rec.best.effective_price <= r.mid

\* C7 witness: a recommendation filled between bid and mid, strictly
C7_Witness ==
    /\ Recommended
    /\ rec.best.bid < rec.best.effective_price
    /\ rec.best.effective_price < rec.best.mid

(***************************************************************************)
(* Claims about clean_options (checked under SpecClean).                   *)
(***************************************************************************)
\* a missing cell, or a cell of a missing column, read as 0
Zero(x) == IF x \in {NaN, NoColumn} THEN 0 ELSE x

\* the quote falls back to lastPrice: bid <= 0, ask <= 0, lastPrice > 0
FallsBack(r) == Zero(r.bid) <= 0 /\ Zero(r.ask) <= 0 /\ Zero(r.lastPrice) > 0

BidAfter(r) == IF FallsBack(r) THEN Zero(r.lastPrice) ELSE Zero(r.bid)

AskAfter(r) == IF FallsBack(r) THEN Zero(r.lastPrice) ELSE Zero(r.ask)

\* the rows C8 says are kept
Kept(r, min_oi, min_mid) ==
    /\ BidAfter(r) > 0
    /\ AskAfter(r) > 0
    /\ BidAfter(r) <= AskAfter(r)
    /\ BidAfter(r) + AskAfter(r) >= 2 * min_mid
    /\ Zero(r.openInterest) >= min_oi

\* the indices of the kept rows of the raw group, in their order
KeptIndices ==
    SelectSeq([i \in 1..Len(group) |-> i], LAMBDA i : Kept(group[i], cfg.min_oi, MinMidDefault))

Cleaned == pc \in {"cleaned", "recleaned"}

\* C8: clean_options keeps exactly the rows that, after missing bid/ask/openInterest
\* are read as 0 and the lastPrice fallback, have bid > 0, ask > 0, bid <= ask,
\* mid >= min_mid and open interest >= min_oi, in their order, with mid recomputed
\* as (bid+ask)/2 whatever mid arrived.
C8_CleanKeepsExactly ==
    Cleaned =>
        /\ Len(clean_group) = Len(KeptIndices)
        /\ \A k \in 1..Len(KeptIndices) :
              LET r == group[KeptIndices[k]]
                  c == clean_group[k]
              IN  /\ c.bid = BidAfter(r)
                  /\ c.ask = AskAfter(r)
                  /\ 2 * c.mid = c.bid + c.ask
                  /\ c.spread = c.ask - c.bid
                  /\ c.openInterest = Zero(r.openInterest)
                  /\ c.strike = r.strike
                  /\ c.side = r.side
                  /\ c.impliedVolatility = r.impliedVolatility

\* C8 witness: of two rows one is dropped and one is kept through the lastPrice
\* fallback, with a mid other than the one it arrived with
C8_Witness ==
    /\ pc = "cleaned"
    /\ Len(group) = 2
    /\ Len(clean_group) = 1
    /\ \E i \in 1..2 :
          /\ FallsBack(group[i])
          /\ clean_group[1].bid = group[i].lastPrice
          /\ clean_group[1].mid # group[i].mid

\* C8 witness of the scenario's rows: all-zero, good, crossed, in a frame without
\* lastPrice, keep only the good row at mid 1.05
C8_WitnessScenario ==
    /\ pc = "cleaned"
    /\ \E i, j \in 1..Len(group) :
          /\ group[i].bid = 1200 /\ group[i].ask = 1000
          /\ group[j].bid = 1000 /\ group[j].ask = 1100 /\ group[j].lastPrice = NoColumn
    /\ Len(clean_group) = 1
    /\ clean_group[1].mid = 1050

\* C9: cleaning is idempotent: clean_options(clean_options(X)) equals
\* clean_options(X) row for row, for the same min_oi and min_mid.
C9_CleanIdempotent ==
    pc = "recleaned" => reclean_group = clean_group

\* C9 witness: a second cleaning of a frame the first one changed and did not empty
C9_Witness ==
    /\ pc = "recleaned"
    /\ Len(clean_group) >= 1
    /\ Len(clean_group) < Len(group)
    /\ \E i \in 1..Len(group) : FallsBack(group[i]) /\ Kept(group[i], cfg.min_oi, MinMidDefault)

(***************************************************************************)
(* Barrier probabilities of a simulated price matrix.                      *)
(***************************************************************************)
\* paths of a price matrix, at most
MaxPaths == 2

\* simulated days of a price matrix, at most
MaxSteps == 2

PathPrices == {95000, 105000, 110000}

BarrierSet == {100000, 105000, 115000}

VolDailySet == {0, 20}

\* days to expiry behind T_years (cli.main reads dte 0 as one day)
HorizonSet == {1, 7}

\* the matrices simulate_paths returns: column 0 is the current price in every path
PriceMatrices(spot) ==
    UNION {UNION {[1..n -> {<<spot>> \o tail : tail \in [1..steps -> PathPrices]}]
                    : n \in 1..MaxPaths}
             : steps \in 1..MaxSteps}

InitBreach ==
    /\ pc = "mc_ready"
    /\ \E spot \in SpotSet : prices \in PriceMatrices(spot)
    /\ strike \in BarrierSet
    /\ vol_daily \in VolDailySet
    /\ dte_days \in HorizonSet
    /\ probs = None
    /\ OptIdle
    /\ AuxIdle

\* cli.main: p_otm, se_otm, p_touch = calculate_probabilities(sim_prices, k, T_years, simulation_vol)
CalcProbs ==
    /\ pc = "mc_ready"
    /\ probs' = calculate_probabilities(prices, strike, dte_days, vol_daily)
    /\ pc' = "mc_done"
    /\ UNCHANGED <<prices, strike, vol_daily, dte_days>>
    /\ UNCHANGED optVars
    /\ UNCHANGED auxVars

NextBreach == CalcProbs

SpecBreach == InitBreach /\ [][NextBreach]_vars

(***************************************************************************)
(* Claims about calculate_probabilities (checked under SpecBreach).        *)
(***************************************************************************)
\* some sampled price of the path is at or above the strike
PathReaches(path) == \E j \in 1..Len(path) : path[j] >= strike

ReachingPaths == {i \in 1..Len(prices) : PathReaches(prices[i])}

\* C10 as stated: if at least one path has a price at or above the strike at some
\* sampled step, p_touch is 1.0.
C10_AnyPathTouchGivesOne ==
    (pc = "mc_done" /\ ReachingPaths # {}) => probs.p_touch = 1000

\* C10 as amended: each path with a sampled price at or above the strike counts
\* 1.0 in the mean, so p_touch >= (number of such paths)/n_paths, and p_touch is
\* 1.0 when every path has one.
C10_TouchedPathsCountOne ==
    pc = "mc_done" =>
        /\ probs.p_touch >= (1000 * Cardinality(ReachingPaths)) \div Len(prices)
        /\ Cardinality(ReachingPaths) = Len(prices) => probs.p_touch = 1000

\* C10 witness: two paths reach a strike above spot, one of them only at a step
\* before the last, and p_touch is 1.0
C10_Witness ==
    /\ pc = "mc_done"
    /\ Len(prices) = 2
    /\ strike > prices[1][1]
    /\ Cardinality(ReachingPaths) = 2
    /\ \E i \in 1..2 : prices[i][Len(prices[i])] < strike
    /\ probs.p_touch = 1000

\* the paths whose terminal price is at or below the strike
OtmPaths == {i \in 1..Len(prices) : prices[i][Len(prices[i])] <= strike}

\* C11: p_otm is (number of paths whose terminal price <= strike) / n_paths, to
\* the resolution of 1/1000, so 0 <= p_otm <= 1, and se_otm is the square root of
\* p_otm * (1 - p_otm) / n_paths, to the same resolution.
C11_OtmFractionAndStdError ==
    pc = "mc_done" =>
        LET n_paths == Len(prices)
            var == (probs.p_otm * (1000 - probs.p_otm)) \div n_paths
        IN  /\ n_paths >= 1
            /\ probs.p_otm * n_paths >= 1000 * Cardinality(OtmPaths)
            /\ probs.p_otm * n_paths < 1000 * Cardinality(OtmPaths) + n_paths
            /\ probs.p_otm \in 0..1000
            /\ probs.se_otm * probs.se_otm <= var
            /\ var < (probs.se_otm + 1) * (probs.se_otm + 1)

\* C11 witness: of two paths one ends exactly at the strike and one above it, so
\* p_otm is 0.5 and se_otm is sqrt(0.125)
C11_Witness ==
    /\ pc = "mc_done"
    /\ Len(prices) = 2
    /\ \E i, j \in 1..2 :
          /\ prices[i][Len(prices[i])] = strike
          /\ prices[j][Len(prices[j])] > strike
    /\ probs.p_otm = 500
    /\ probs.se_otm = 353

(***************************************************************************)
(* brownian_bridge_touch called on its own.                                *)
(***************************************************************************)
\* the arguments of one call: sigma squared and annual, dt in days
BridgeArgs ==
    [S_start : PathPrices, S_end : PathPrices, Barrier : BarrierSet,
     sigma_sq : {VolAnnualSq(vd) : vd \in VolDailySet}, days : HorizonSet]

InitBridge ==
    /\ pc = "bridge_ready"
    /\ bridge_args \in BridgeArgs
    /\ touch_prob = None
    /\ McIdle
    /\ OptIdle
    /\ ResIdle
    /\ SimIdle
    /\ FitIdle
    /\ RunIdle
    /\ DeltaIdle

\* prob = brownian_bridge_touch(s_start, s_end, strike, vol_annual, T_years)
BridgeTouch ==
    /\ pc = "bridge_ready"
    /\ touch_prob' = brownian_bridge_touch(bridge_args.S_start, bridge_args.S_end,
                                           bridge_args.Barrier, bridge_args.sigma_sq,
                                           bridge_args.days)
    /\ pc' = "bridge_done"
    /\ UNCHANGED bridge_args
    /\ UNCHANGED <<mcVars, optVars, deltaVars, resVars, simVars, fitVars, runVars>>

NextBridge == BridgeTouch

SpecBridge == InitBridge /\ [][NextBridge]_vars

(***************************************************************************)
(* Claims about brownian_bridge_touch (checked under SpecBridge).          *)
(***************************************************************************)
\* an endpoint of the bridge is at or above the barrier
EndpointCrossed == bridge_args.S_start >= bridge_args.Barrier \/ bridge_args.S_end >= bridge_args.Barrier

\* C12: brownian_bridge_touch returns 1.0 whenever S_start >= Barrier or
\* S_end >= Barrier, whatever sigma is, zero included, and 0.0 when sigma is zero
\* and both endpoints are strictly below the barrier: the endpoint check precedes
\* the zero-volatility check.
C12_EndpointBeforeZeroVol ==
    pc = "bridge_done" =>
        /\ EndpointCrossed => touch_prob = 1000
        /\ (bridge_args.sigma_sq = 0 /\ ~EndpointCrossed) => touch_prob = 0

\* C12 witness: a call with zero sigma and only the end point at the barrier
\* returns 1.0
C12_Witness ==
    /\ pc = "bridge_done"
    /\ bridge_args.sigma_sq = 0
    /\ bridge_args.S_start < bridge_args.Barrier
    /\ bridge_args.S_end = bridge_args.Barrier
    /\ touch_prob = 1000

\* C12 witness of the other branch: zero sigma, both endpoints below, 0.0
C12_WitnessZeroVol ==
    /\ pc = "bridge_done"
    /\ bridge_args.sigma_sq = 0
    /\ ~EndpointCrossed
    /\ touch_prob = 0

(***************************************************************************)
(* features/resistance.py                                                  *)
(*                                                                         *)
(* The daily history is held run-length encoded, oldest run first: a run   *)
(* [n, high, close] stands for n consecutive bars with that high and       *)
(* close. Strengths are in tenths; zone_width is in 1/10000.               *)
(***************************************************************************)
\* strength of a rolling high: 1.0
HighStrength == 10

\* strength of a moving average: 0.8
SmaStrength == 8

\* strength of the session VWAP: 0.6
VwapStrength == 6

\* strength of the psychological fallback: 0.5
PsychStrength == 5

\* the round-number step of the fallback: 10 dollars
RoundStep == 10000

\* res_zone_width = 0.01
ResZoneWidthDefault == 100

\* for window in [20, 50, 100]: f'{window}d_high'
HighWindows ==
    <<[window |-> 20, type |-> "20d_high"],
      [window |-> 50, type |-> "50d_high"],
      [window |-> 100, type |-> "100d_high"]>>

\* for window in [20, 50, 200]: f'SMA_{window}'
SmaWindows ==
    <<[window |-> 20, type |-> "SMA_20"],
      [window |-> 50, type |-> "SMA_50"],
      [window |-> 200, type |-> "SMA_200"]>>

Min(a, b) == IF a <= b THEN a ELSE b

\* len(daily)
RECURSIVE BarCount(_, _)
BarCount(bars, i) == IF i = 0 THEN 0 ELSE bars[i].n + BarCount(bars, i - 1)

\* the greatest high of the last `left` bars of runs 1..i
RECURSIVE TailMax(_, _, _)
TailMax(bars, i, left) ==
    IF left <= 0 \/ i = 0 THEN 0
    ELSE Max(bars[i].high, TailMax(bars, i - 1, left - bars[i].n))

\* the sum of the closes of the last `left` bars of runs 1..i
RECURSIVE TailSum(_, _, _)
TailSum(bars, i, left) ==
    IF left <= 0 \/ i = 0 THEN 0
    ELSE Min(left, bars[i].n) * bars[i].close + TailSum(bars, i - 1, left - bars[i].n)

\* daily['high'].rolling(window).max().iloc[-1]: NaN on fewer than window bars
RollingMax(bars, window) ==
    IF BarCount(bars, Len(bars)) < window THEN NaN
    ELSE TailMax(bars, Len(bars), window)

\* daily['close'].rolling(window).mean().iloc[-1]: NaN on fewer than window bars
RollingMean(bars, window) ==
    IF BarCount(bars, Len(bars)) < window THEN NaN
    ELSE TailSum(bars, Len(bars), window) \div window

\* intraday['cum_vol'].iloc[-1]
RECURSIVE CumVol(_, _)
CumVol(ticks, i) == IF i = 0 THEN 0 ELSE ticks[i].volume + CumVol(ticks, i - 1)

\* intraday['cum_vol_price'].iloc[-1], with tp = (high + low + close) / 3
RECURSIVE CumVolPrice(_, _)
CumVolPrice(ticks, i) ==
    IF i = 0 THEN 0
    ELSE ((ticks[i].high + ticks[i].low + ticks[i].close) \div 3) * ticks[i].volume
         + CumVolPrice(ticks, i - 1)

\* vwap of a non-empty intraday frame: 0/0 is NaN
Vwap(ticks) ==
    IF CumVol(ticks, Len(ticks)) = 0 THEN NaN
    ELSE CumVolPrice(ticks, Len(ticks)) \div CumVol(ticks, Len(ticks))

\* mutation of Qualifies: a value equal to the current price qualifies
QualifiesAtOrAbove(val, price) == val # NaN /\ val >= price

\* if val > current_price (False for NaN)
Qualifies(val, price) == val # NaN /\ val > price

Level(val, type, strength) == [level |-> val, type |-> <<type>>, strength |-> strength]

\* the levels one loop over windows appends, from window k on; values[k] is the
\* rolling value of windows[k]
RECURSIVE WindowLevels(_, _, _, _, _)
WindowLevels(windows, values, k, strength, price) ==
    IF k > Len(windows) THEN <<>>
    ELSE (IF Qualifies(values[k], price)
          THEN <<Level(values[k], windows[k].type, strength)>> ELSE <<>>)
         \o WindowLevels(windows, values, k + 1, strength, price)

\* the level the VWAP block appends
VwapLevels(ticks, price) ==
    IF ticks # <<>> /\ Qualifies(Vwap(ticks), price)
    THEN <<Level(Vwap(ticks), "VWAP_session", VwapStrength)>>
    ELSE <<>>

\* raw_levels before the fallback: rolling highs, moving averages, VWAP
RealCandidates(bars, ticks, price) ==
    WindowLevels(HighWindows,
                 [k \in 1..Len(HighWindows) |-> RollingMax(bars, HighWindows[k].window)],
                 1, HighStrength, price)
    \o WindowLevels(SmaWindows,
                    [k \in 1..Len(SmaWindows) |-> RollingMean(bars, SmaWindows[k].window)],
                    1, SmaStrength, price)
    \o VwapLevels(ticks, price)

\* mutation of Fallback: a price that is a round number is its own fallback
FallbackNoBump(price) == ((price + RoundStep - 1) \div RoundStep) * RoundStep

\* np.ceil(current_price / 10) * 10, plus 10 if that is the current price
Fallback(price) ==
    LET fallback == ((price + RoundStep - 1) \div RoundStep) * RoundStep
    IN  IF fallback = price THEN fallback + RoundStep ELSE fallback

\* raw_levels after `if not raw_levels:`
WithFallback(raw_levels, price) ==
    IF raw_levels = <<>>
    THEN <<Level(Fallback(price), "psychological", PsychStrength)>>
    ELSE raw_levels

\* one item put into an ascending list, behind the items of its level
RECURSIVE InsertByLevel(_, _)
InsertByLevel(sorted, item) ==
    IF sorted = <<>> THEN <<item>>
    ELSE IF sorted[Len(sorted)].level <= item.level THEN Append(sorted, item)
    ELSE Append(InsertByLevel(SubSeq(sorted, 1, Len(sorted) - 1), item), sorted[Len(sorted)])

\* raw_levels.sort(key=lambda x: x['level']): ascending and stable
RECURSIVE SortByLevel(_)
SortByLevel(levels) ==
    IF levels = <<>> THEN <<>>
    ELSE InsertByLevel(SortByLevel(SubSeq(levels, 1, Len(levels) - 1)), levels[Len(levels)])

RECURSIVE SumStrength(_, _)
SumStrength(cluster, i) == IF i = 0 THEN 0 ELSE cluster[i].strength + SumStrength(cluster, i - 1)

RECURSIVE SumLevelStrength(_, _)
SumLevelStrength(cluster, i) ==
    IF i = 0 THEN 0
    ELSE cluster[i].level * cluster[i].strength + SumLevelStrength(cluster, i - 1)

RECURSIVE SumLevel(_, _)
SumLevel(cluster, i) == IF i = 0 THEN 0 ELSE cluster[i].level + SumLevel(cluster, i - 1)

\* '+'.join(types): the labels of the members in their order
RECURSIVE JoinTypes(_, _)
JoinTypes(cluster, i) == IF i = 0 THEN <<>> ELSE JoinTypes(cluster, i - 1) \o cluster[i].type

\* mutation of merge_cluster: the plain average of the members' levels
merge_cluster_Unweighted(cluster) ==
    IF Len(cluster) = 1 THEN cluster[1]
    ELSE [level |-> SumLevel(cluster, Len(cluster)) \div Len(cluster),
          type |-> JoinTypes(cluster, Len(cluster)),
          strength |-> SumStrength(cluster, Len(cluster))]

\* _merge_cluster(cluster)
merge_cluster(cluster) ==
    IF Len(cluster) = 1 THEN cluster[1]
    ELSE LET total_strength == SumStrength(cluster, Len(cluster))
         IN  [level |-> SumLevelStrength(cluster, Len(cluster)) \div total_strength,
              type |-> JoinTypes(cluster, Len(cluster)),
              strength |-> total_strength]

\* mutation of PrevMember: the gap is measured from the cluster's first member
PrevMemberFirst(current_cluster) == current_cluster[1]

\* prev = current_cluster[-1]
PrevMember(current_cluster) == current_cluster[Len(current_cluster)]

\* (curr['level'] - prev['level']) / prev['level'] <= zone_width
WithinZone(prev, curr, zw) == (curr.level - prev.level) * 10000 <= zw * prev.level

\* the loop over raw_levels[1:], from index i on, and the last cluster
RECURSIVE ClusterLoop(_, _, _, _, _)
ClusterLoop(raw_levels, i, current_cluster, clustered, zw) ==
    IF i > Len(raw_levels) THEN Append(clustered, merge_cluster(current_cluster))
    ELSE IF WithinZone(PrevMember(current_cluster), raw_levels[i], zw)
    THEN ClusterLoop(raw_levels, i + 1, Append(current_cluster, raw_levels[i]), clustered, zw)
    ELSE ClusterLoop(raw_levels, i + 1, <<raw_levels[i]>>,
                     Append(clustered, merge_cluster(current_cluster)), zw)

\* the sort-group-merge step of detect_resistance: sort, cluster, merge, sort
cluster_levels(raw_levels, zw) ==
    LET sorted == SortByLevel(raw_levels)
    IN  IF sorted = <<>> THEN <<>>
        ELSE SortByLevel(ClusterLoop(sorted, 2, <<sorted[1]>>, <<>>, zw))

\* detect_resistance(daily, intraday, current_price, zone_width)
detect_resistance(bars, ticks, price, zw) ==
    cluster_levels(WithFallback(RealCandidates(bars, ticks, price), price), zw)

(***************************************************************************)
(* Detecting resistance, and clustering the result again.                  *)
(***************************************************************************)
\* runs of a daily history, at most
MaxRuns == 2

CurrentPriceSet == {100000, 101300}

ZoneWidthSet == {0, ResZoneWidthDefault}

\* runs of bars: 10 bars are fewer than every window, 200 as many as the longest
RunSet ==
    {r \in [n : {10, 20, 200}, high : {100500, 101300, 103000}, close : {99000, 101000}] :
        r.close <= r.high}

\* the non-empty histories
DailyHistories == SeqsUpTo(RunSet, MaxRuns) \ {<<>>}

\* intraday frames: none, one bar, two bars, a bar without volume
IntradayFrames ==
    LET lo == [high |-> 100800, low |-> 100200, close |-> 100500, volume |-> 100]
        hi == [high |-> 102300, low |-> 101700, close |-> 102000, volume |-> 300]
    IN  {<<>>, <<lo>>, <<hi>>, <<lo, hi>>, <<[hi EXCEPT !.volume = 0]>>}

InitRes ==
    /\ pc = "res_ready"
    /\ daily \in DailyHistories
    /\ intraday \in IntradayFrames
    /\ current_price \in CurrentPriceSet
    /\ zone_width \in ZoneWidthSet
    /\ recluster_df = <<>>
    /\ OptIdle
    /\ McIdle
    /\ BridgeIdle
    /\ DeltaIdle
    /\ SimIdle
    /\ FitIdle
    /\ RunIdle

\* cli.main: res_df = detect_resistance(daily, intraday, spot, cfg.res_zone_width)
Detect ==
    /\ pc = "res_ready"
    /\ res_df' = detect_resistance(daily, intraday, current_price, zone_width)
    /\ pc' = "detected"
    /\ UNCHANGED <<group, clean_group, reclean_group, cfg, p_otm_dict, svi_params, rec>>
    /\ UNCHANGED <<mcVars, bridgeVars, deltaVars, resVars, simVars, fitVars, runVars>>

\* the clustering step applied to the clustered output
Recluster ==
    /\ pc = "detected"
    /\ recluster_df' = cluster_levels(res_df, zone_width)
    /\ pc' = "reclustered"
    /\ UNCHANGED <<daily, intraday, current_price, zone_width>>
    /\ UNCHANGED <<mcVars, bridgeVars, deltaVars, optVars, simVars, fitVars, runVars>>

NextRes == Detect \/ Recluster

SpecRes == InitRes /\ [][NextRes]_vars

(***************************************************************************)
(* Claims about detect_resistance (checked under SpecRes).                 *)
(***************************************************************************)
Detected == pc \in {"detected", "reclustered"}

\* C13: detect_resistance returns a non-empty list of levels, every level strictly
\* above current_price, in strictly ascending order of level.
C13_NonEmptyAboveAscending ==
    Detected =>
        /\ Len(res_df) >= 1
        /\ \A i \in 1..Len(res_df) : res_df[i].level > current_price
        /\ \A i \in 1..Len(res_df) - 1 : res_df[i].level < res_df[i + 1].level

\* C13 witness: several levels returned from a history with a high equal to the
\* current price
C13_Witness ==
    /\ Detected
    /\ Len(res_df) >= 2
    /\ \E w \in {20, 50, 100} : RollingMax(daily, w) = current_price

\* the candidate levels in ascending order, as the clustering loop reads them
SortedRaw ==
    SortByLevel(WithFallback(RealCandidates(daily, intraday, current_price), current_price))

\* the number of the cluster of the i-th candidate: one more than the number of
\* candidates up to it whose gap from their predecessor exceeds zone_width
ClusterIndex(raw, i) ==
    1 + Cardinality({j \in 2..i :
                        (raw[j].level - raw[j - 1].level) * 10000 > zone_width * raw[j - 1].level})

Members(raw, k) == {i \in 1..Len(raw) : ClusterIndex(raw, i) = k}

RECURSIVE SumOver(_, _)
SumOver(f, S) ==
    IF S = {} THEN 0
    ELSE LET x == CHOOSE y \in S : TRUE
         IN  f[x] + SumOver(f, S \ {x})

\* C14: a candidate joins the current cluster iff its relative gap from the
\* candidate before it is <= zone_width; each cluster becomes one level at the
\* strength-weighted average of its members, with the sum of their strengths and
\* their labels in ascending order; total strength is conserved and each merged
\* level lies between its cluster's minimum and maximum.
C14_GreedyClusters ==
    Detected =>
        LET raw == SortedRaw
            n == Len(raw)
            strengths == [i \in 1..n |-> raw[i].strength]
            weighted == [i \in 1..n |-> raw[i].level * raw[i].strength]
        IN  /\ Len(res_df) = ClusterIndex(raw, n)
            /\ \A k \in 1..Len(res_df) :
                  LET M == Members(raw, k)
                      first == CHOOSE i \in M : \A j \in M : i <= j
                  IN  /\ res_df[k].strength = SumOver(strengths, M)
                      /\ res_df[k].level = SumOver(weighted, M) \div SumOver(strengths, M)
                      /\ Len(res_df[k].type) = Cardinality(M)
                      /\ \A i \in M : res_df[k].type[i - first + 1] = raw[i].type[1]
                      /\ \E i, j \in M : /\ raw[i].level <= res_df[k].level
                                         /\ res_df[k].level <= raw[j].level
            /\ SumOver([k \in 1..Len(res_df) |-> res_df[k].strength], 1..Len(res_df))
                  = SumOver(strengths, 1..n)

\* C14 witness: a cluster of three distinct levels whose last is farther than
\* zone_width from its first, each within zone_width of the one before
C14_Witness ==
    /\ Detected
    /\ zone_width > 0
    /\ \E k \in 1..Len(res_df) :
          \E i, j \in Members(SortedRaw, k) :
              /\ j >= i + 2
              /\ SortedRaw[i].level < SortedRaw[i + 1].level
              /\ SortedRaw[i + 1].level < SortedRaw[j].level
              /\ (SortedRaw[j].level - SortedRaw[i].level) * 10000 > zone_width * SortedRaw[i].level

\* C14 witness of the scenario: two levels within 0.5% of each other merge into
\* one weighted level and a farther level stays separate
C14_WitnessScenario ==
    /\ Detected
    /\ zone_width = ResZoneWidthDefault
    /\ Len(res_df) = 2
    /\ Members(SortedRaw, 2) # {}
    /\ \E i, j \in Members(SortedRaw, 1) :
          /\ SortedRaw[i].level < SortedRaw[j].level
          /\ (SortedRaw[j].level - SortedRaw[i].level) * 10000 <= 50 * SortedRaw[i].level
          /\ SortedRaw[i].level < res_df[1].level
          /\ res_df[1].level < SortedRaw[j].level

\* C15: clustering the clustered output again with the same zone_width returns the
\* same levels, and no two output levels are within zone_width of each other.
C15_ClusterIdempotent ==
    /\ pc = "reclustered" => recluster_df = res_df
    /\ Detected =>
          \A i \in 1..Len(res_df) - 1 :
              (res_df[i + 1].level - res_df[i].level) * 10000 > zone_width * res_df[i].level

\* C15 witness: a second clustering of an output of two levels, one of them merged
\* from candidates at different levels
C15_Witness ==
    /\ pc = "reclustered"
    /\ Len(res_df) >= 2
    /\ \E k \in 1..Len(res_df) :
          \E i, j \in Members(SortedRaw, k) : SortedRaw[i].level < SortedRaw[j].level

\* no rolling high, moving average or VWAP is above the current price
NoRealCandidate ==
    /\ \A w \in {20, 50, 100} : RollingMax(daily, w) = NaN \/ RollingMax(daily, w) <= current_price
    /\ \A w \in {20, 50, 200} : RollingMean(daily, w) = NaN \/ RollingMean(daily, w) <= current_price
    /\ intraday = <<>> \/ Vwap(intraday) = NaN \/ Vwap(intraday) <= current_price

\* C16: without a rolling high, moving average or VWAP above current_price,
\* detect_resistance returns exactly one level, psychological with strength 0.5,
\* at the smallest multiple of 10 strictly above current_price; with a real
\* candidate above current_price no psychological level is returned.
C16_PsychologicalFallback ==
    Detected =>
        IF NoRealCandidate
        THEN /\ Len(res_df) = 1
             /\ res_df[1].type = <<"psychological">>
             /\ res_df[1].strength = 5
             /\ res_df[1].level % 10000 = 0
             /\ res_df[1].level > current_price
             /\ res_df[1].level - 10000 <= current_price
        ELSE \A k \in 1..Len(res_df) :
                 \A t \in 1..Len(res_df[k].type) : res_df[k].type[t] # "psychological"

\* C16 witness: a history shorter than every rolling window, with highs above a
\* current price that is a multiple of 10, yields the fallback 10 above it
C16_Witness ==
    /\ Detected
    /\ BarCount(daily, Len(daily)) < 20
    /\ \E i \in 1..Len(daily) : daily[i].high > current_price
    /\ current_price % 10000 = 0
    /\ res_df = <<[level |-> current_price + 10000, type |-> <<"psychological">>, strength |-> 5]>>

\* C16 witness with full windows: every rolling value at or below the current
\* price
C16_WitnessAtHigh ==
    /\ Detected
    /\ BarCount(daily, Len(daily)) >= 200
    /\ NoRealCandidate
    /\ res_df[1].type = <<"psychological">>

(***************************************************************************)
(* models/garch.py                                                         *)
(*                                                                         *)
(* Returns and volatilities are in percent, as GarchModel rescales them;   *)
(* alpha, gamma and beta are in 1/100; a draw is in standard deviations.   *)
(***************************************************************************)
\* the states of numpy's global generator
RngModulus == 16

\* the generator's state after one draw (a full-period congruential step)
RngNext(state) == (5 * state + 3) % RngModulus

\* the state after k draws
RECURSIVE RngAdvance(_, _)
RngAdvance(state, k) == IF k = 0 THEN state ELSE RngAdvance(RngNext(state), k - 1)

\* the innovation a draw returns in the given state: -2..2 standard deviations
\* (nu shapes the distribution of a draw, not its dependence on the state)
StandardT(state) == (state % 5) - 2

\* z = np.random.standard_t(nu, size=(n_paths, n_days)): row-major draws from
\* the global generator
DrawMatrix(state, n_paths, n_days) ==
    [i \in 1..n_paths |->
        [t \in 1..n_days |-> StandardT(RngAdvance(state, (i - 1) * n_days + (t - 1)))]]

\* np.exp(x/1000), in 1/1000
Exp(x) == IF x >= 0 THEN 1000000 \div ExpNeg(x) ELSE ExpNeg(0 - x)

\* one path from step t on: h is current_vol_sq, cum the running log return in
\* percent; the prices of steps t..n_days
RECURSIVE PathFrom(_, _, _, _, _, _)
PathFrom(model, z_row, t, h, cum, price) ==
    IF t > Len(z_row) THEN <<>>
    ELSE LET eps == z_row[t] * ISqrt(h)
             I == IF eps < 0 THEN 1 ELSE 0
             next_h == model.omega + ((model.alpha + model.gamma * I) * eps * eps
                                       + model.beta * h) \div 100
             next_cum == cum + eps
         IN  <<(price * Exp(10 * next_cum)) \div 1000>>
             \o PathFrom(model, z_row, t + 1, next_h, next_cum, price)

\* GarchModel.simulate_paths(n_days, n_paths, current_price), given the state of
\* the global generator: the price matrix, current_price in column 0
simulate_paths(model, n_days, n_paths, price, state) ==
    LET z == DrawMatrix(state, n_paths, n_days)
    IN  [i \in 1..n_paths |->
            <<price>> \o PathFrom(model, z[i], 1, model.last_vol * model.last_vol, 0, price)]

(***************************************************************************)
(* Two simulations in one process.                                         *)
(***************************************************************************)
\* simulated days, at most
MaxDays == 2

\* simulated paths, at most
MaxSimPaths == 2

\* fitted models: omega, alpha[1], gamma[1], beta[1] and the last conditional
\* volatility
GarchSet ==
    {[omega |-> 1, alpha |-> 5, gamma |-> 10, beta |-> 85, last_vol |-> 2],
     [omega |-> 2, alpha |-> 10, gamma |-> 0, beta |-> 80, last_vol |-> 3]}

InitSim ==
    /\ pc = "sim_ready"
    /\ np_random \in 0..(RngModulus - 1)
    /\ garch \in GarchSet
    /\ sim_call \in [n_days : 1..MaxDays, n_paths : 1..MaxSimPaths, current_price : SpotSet]
    /\ sim_prices = <<>>
    /\ sim_prices_again = <<>>
    /\ McIdle
    /\ OptIdle
    /\ BridgeIdle
    /\ DeltaIdle
    /\ ResIdle
    /\ FitIdle
    /\ RunIdle

\* sim_prices, _ = garch.simulate_paths(n_days, cfg.mc_paths, spot)
Simulate ==
    /\ pc = "sim_ready"
    /\ sim_prices' = simulate_paths(garch, sim_call.n_days, sim_call.n_paths,
                                    sim_call.current_price, np_random)
    /\ np_random' = RngAdvance(np_random, sim_call.n_paths * sim_call.n_days)
    /\ pc' = "sim_once"
    /\ UNCHANGED <<garch, sim_call, sim_prices_again>>
    /\ UNCHANGED <<mcVars, optVars, bridgeVars, deltaVars, resVars, fitVars, runVars>>

\* any other draw from the global generator in the process
OtherDraw ==
    /\ pc = "sim_once"
    /\ np_random' = RngNext(np_random)
    /\ UNCHANGED <<pc, garch, sim_call, sim_prices, sim_prices_again>>
    /\ UNCHANGED <<mcVars, optVars, bridgeVars, deltaVars, resVars, fitVars, runVars>>

\* the same call once more
SimulateAgain ==
    /\ pc = "sim_once"
    /\ sim_prices_again' = simulate_paths(garch, sim_call.n_days, sim_call.n_paths,
                                          sim_call.current_price, np_random)
    /\ np_random' = RngAdvance(np_random, sim_call.n_paths * sim_call.n_days)
    /\ pc' = "sim_twice"
    /\ UNCHANGED <<garch, sim_call, sim_prices>>
    /\ UNCHANGED <<mcVars, optVars, bridgeVars, deltaVars, resVars, fitVars, runVars>>

NextSim == Simulate \/ OtherDraw \/ SimulateAgain

SpecSim == InitSim /\ [][NextSim]_vars

(***************************************************************************)
(* Claims about simulate_paths (checked under SpecSim).                    *)
(***************************************************************************)
\* C17: two calls of simulate_paths with the same fitted model, horizon, path
\* count and current price return identical price matrices, whatever other
\* random draws the process makes between them.
C17_SameCallSamePaths ==
    pc = "sim_twice" => sim_prices_again = sim_prices

(***************************************************************************)
(* options/iv_surface.py: fit_svi, and the steps of cli.main around it.    *)
(***************************************************************************)
\* if len(ivs) < 5: return None
MinFitQuotes == 5

\* clean_group['impliedVolatility'].fillna(0.5), in percent
IvFillDefault == 50

\* bounds = ([0, 0, -0.99, -5.0, 0.001], [2.0, 2.0, 0.99, 5.0, 2.0]), in 1/10000
SviLower == [a |-> 0, b |-> 0, rho |-> 0 - 9900, m |-> 0 - 50000, sigma |-> 10]

SviUpper == [a |-> 20000, b |-> 20000, rho |-> 9900, m |-> 50000, sigma |-> 20000]

InBounds(x) ==
    \A f \in {"a", "b", "rho", "m", "sigma"} : SviLower[f] <= x[f] /\ x[f] <= SviUpper[f]

\* what least_squares(residuals, x0, bounds=bounds, loss='soft_l1') can do: raise
\* (always, when a residual is not finite at x0), or return a result whose x is
\* inside the bounds, converged (success) or not
least_squares(ivs) ==
    IF \E i \in 1..Len(ivs) : ivs[i] = NaN
    THEN {[kind |-> "raise"]}
    ELSE {[kind |-> "raise"]}
         \cup {[kind |-> "result", x |-> x, success |-> ok] :
                  x \in {p \in SviSet : InBounds(p)}, ok \in BOOLEAN}

\* fit_svi(strikes, ivs, T, spot), res being what least_squares does
fit_svi(ivs, res) ==
    IF Len(ivs) < MinFitQuotes THEN None
    ELSE IF res.kind = "raise" THEN None
    ELSE res.x

\* clean_group['impliedVolatility'].fillna(0.5)
FillIv(df) ==
    [i \in 1..Len(df) |->
        [df[i] EXCEPT !.impliedVolatility = IF @ = NaN THEN IvFillDefault ELSE @]]

\* ivs = clean_group['impliedVolatility'].values
Ivs(df) == [i \in 1..Len(df) |-> df[i].impliedVolatility]

(***************************************************************************)
(* One expiry of cli.main: clean, fit the surface, select.                 *)
(***************************************************************************)
\* quotes of an expiry's chain, at most
MaxQuotes == 5

FitIvSet == {NaN, 0, 30}

\* the sides and strikes of a chain's rows
ChainRows ==
    <<[side |-> "call", strike |-> 101000], [side |-> "call", strike |-> 110000],
      [side |-> "put", strike |-> 110000], [side |-> "put", strike |-> 101000],
      [side |-> "put", strike |-> 100000], [side |-> "call", strike |-> 100000]>>

\* chains of MaxQuotes - 1 and of MaxQuotes tightly quoted rows, whose implied
\* volatilities are missing, zero or 30%
FitGroups(d, spot) ==
    UNION {{[i \in 1..n |-> Row(ChainRows[i].side, ChainRows[i].strike, TightQuote, ivs[i], d, spot)] :
               ivs \in [1..n -> FitIvSet]} :
              n \in (MaxQuotes - 1)..MaxQuotes}

InitFit ==
    /\ pc = "raw"
    /\ \E spot \in SpotSet : group \in FitGroups(7, spot)
    /\ cfg = Config
    /\ p_otm_dict = [K \in StrikeSet \ SpotSet |-> <<800, 700, 300>>]
    /\ res_df = <<[level |-> 104000, strength |-> 18]>>
    /\ svi_params = None
    /\ clean_group = <<>>
    /\ reclean_group = <<>>
    /\ rec = None
    /\ optimizer = None
    /\ McIdle
    /\ BridgeIdle
    /\ DeltaIdle
    /\ ResIdle
    /\ SimIdle
    /\ RunIdle

\* cli.main: fill the missing volatilities, svi_params = fit_svi(strikes, ivs, T_years, spot)
Fit ==
    /\ pc = "cleaned"
    /\ clean_group' = FillIv(clean_group)
    /\ IF Len(clean_group) < MinFitQuotes
       THEN /\ optimizer' = None
            /\ svi_params' = fit_svi(Ivs(FillIv(clean_group)), None)
       ELSE \E res \in least_squares(Ivs(FillIv(clean_group))) :
                /\ optimizer' = res
                /\ svi_params' = fit_svi(Ivs(FillIv(clean_group)), res)
    /\ pc' = "fitted"
    /\ UNCHANGED <<group, reclean_group, cfg, p_otm_dict, res_df, rec>>
    /\ UNCHANGED <<mcVars, bridgeVars, deltaVars, resVars, simVars, runVars>>

\* cli.main: rec = select_strike(clean_group, p_otm_dict, res_df, cfg, svi_params)
SelectFitted ==
    /\ pc = "fitted"
    /\ rec' \in select_strike(clean_group, p_otm_dict, res_df, cfg, svi_params)
    /\ pc' = "selected"
    /\ UNCHANGED <<group, clean_group, reclean_group, cfg, p_otm_dict, res_df, svi_params>>
    /\ UNCHANGED <<mcVars, auxVars>>

NextFit == Clean \/ Fit \/ SelectFitted

SpecFit == InitFit /\ [][NextFit]_vars

(***************************************************************************)
(* Claims about fit_svi (checked under SpecFit).                           *)
(***************************************************************************)
Fitted == pc \in {"fitted", "selected"}

\* least_squares was called and raised or returned without converging
OptimizerFailed ==
    \/ optimizer.kind = "raise"
    \/ optimizer.kind = "result" /\ ~optimizer.success

\* C18: when the optimizer raises or terminates without converging, fit_svi
\* returns None, and select_strike prices every strike from the row's quoted
\* implied volatility: a non-converged parameter vector prices no strike.
C18_FailedFitFallsBack ==
    /\ (Fitted /\ OptimizerFailed) => svi_params = None
    /\ (pc = "selected" /\ OptimizerFailed /\ rec.kind = "rec") =>
          \E i \in 1..Len(clean_group) :
              /\ clean_group[i].side = "call"
              /\ clean_group[i].strike = rec.best.strike
              /\ clean_group[i].impliedVolatility = rec.best.model_iv

\* the quotes of the cleaned chain with an implied volatility present and positive
UsableQuotes ==
    LET df == clean_options(group, cfg.min_oi, MinMidDefault)
    IN  {i \in 1..Len(df) : df[i].impliedVolatility # NaN /\ df[i].impliedVolatility > 0}

\* C19: with fewer than 5 usable quotes (implied volatility present and positive)
\* fit_svi returns None; parameters it returns are inside the declared bounds.
C19_FewUsableQuotesGiveNone ==
    Fitted =>
        /\ Cardinality(UsableQuotes) < 5 => svi_params = None
        /\ svi_params # None => InBounds(svi_params)

(***************************************************************************)
(* cli.py: the loop of main over the expiries of the option chain.         *)
(***************************************************************************)
\* dte_grid = [0, 5, 7, 14]
DteGrid == {0, 5, 7, 14}

\* if not any(abs(dte - t) <= 2 for t in target_dtes): continue
OnGrid(dte) == \E t \in DteGrid : Abs(dte - t) <= 2

\* the call row nearest to spot: (calls['strike'] - spot).abs().idxmin()
AtmIndex(calls, spot) ==
    CHOOSE i \in 1..Len(calls) :
        /\ \A j \in 1..Len(calls) : Abs(calls[i].strike - spot) <= Abs(calls[j].strike - spot)
        /\ \A j \in 1..(i - 1) : Abs(calls[j].strike - spot) > Abs(calls[i].strike - spot)

\* market_iv, in percent: the volatility of the call nearest to spot, 0.0 without calls
MarketIv(df, spot) ==
    LET calls == CallsOf(df)
    IN  IF calls = <<>> THEN 0 ELSE calls[AtmIndex(calls, spot)].impliedVolatility

\* simulation_vol in 1/1000: last_garch_sigma, or market_iv / sqrt(252) when
\* market_iv > 2.0 * garch_vol_annual
SimulationVol(df, spot, model) ==
    LET market_iv == MarketIv(df, spot)
    IN  IF market_iv * market_iv > 4 * 252 * model.last_vol * model.last_vol
        THEN ISqrt((100 * market_iv * market_iv) \div 252)
        ELSE 10 * model.last_vol

\* p_otm_dict[k] = (p_otm, lcb, p_touch) for k in calls['strike'].unique(), with
\* lcb = p_otm - 1.645 * se_otm
ProbabilityTable(df, paths, days, vd) ==
    [K \in {r.strike : r \in SeqRange(CallsOf(df))} |->
        LET pr == calculate_probabilities(paths, K, days, vd)
        IN  <<pr.p_otm, pr.p_otm - (1645 * pr.se_otm) \div 1000, pr.p_touch>>]

(***************************************************************************)
(* The analysis run.                                                       *)
(***************************************************************************)
\* expiries of the option chain, at most
MaxExpiries == 2

\* paths of a simulation in the run (cfg.mc_paths, scaled down)
RunPaths == 2

ExpiryLabels == <<"exp1", "exp2", "exp3">>

\* an expiry's rows: a call and a put; a put alone; a crossed call; a call off
\* the dte grid; a crossed call and a put
ExpiryGroups(spot) ==
    {<<Row("call", 110000, TightQuote, 30, 7, spot), Row("put", 110000, TightQuote, 30, 7, spot)>>,
     <<Row("put", 110000, TightQuote, 30, 7, spot)>>,
     <<Row("call", 110000, CrossedQuote, 30, 5, spot)>>,
     <<Row("call", 110000, TightQuote, 30, 30, spot)>>,
     <<Row("call", 110000, CrossedQuote, 30, 7, spot), Row("put", 110000, TightQuote, 30, 7, spot)>>}

\* opts.groupby('expiration'): the groups in the order of their expirations
Chains(spot) ==
    UNION {{[i \in 1..n |-> [j \in 1..Len(gs[i]) |-> [gs[i][j] EXCEPT !.expiration = ExpiryLabels[i]]]] :
               gs \in [1..n -> ExpiryGroups(spot)]} :
              n \in 1..MaxExpiries}

InitRun ==
    /\ pc = "run_loop"
    /\ current_price \in SpotSet
    /\ opts \in Chains(current_price)
    /\ exp_i = 1
    /\ recommendations = <<>>
    /\ out_file = None
    /\ garch \in GarchSet
    /\ np_random \in 0..(RngModulus - 1)
    /\ cfg = Config
    /\ res_df = <<[level |-> 104000, strength |-> 18]>>
    /\ group = <<>>
    /\ clean_group = <<>>
    /\ reclean_group = <<>>
    /\ p_otm_dict = <<>>
    /\ svi_params = None
    /\ rec = None
    /\ optimizer = None
    /\ sim_call = None
    /\ sim_prices = <<>>
    /\ sim_prices_again = <<>>
    /\ daily = <<>>
    /\ intraday = <<>>
    /\ zone_width = 0
    /\ recluster_df = <<>>
    /\ McIdle
    /\ BridgeIdle
    /\ DeltaIdle

\* one pass of the loop body that ends in a `continue`: an expiry off the dte
\* grid, or one whose rows the cleaner all drops
SkipExpiry ==
    /\ pc = "run_loop"
    /\ exp_i <= Len(opts)
    /\ LET dte == opts[exp_i][1].dte
           cleaned == clean_options(opts[exp_i], cfg.min_oi, MinMidDefault)
       IN  /\ ~OnGrid(dte) \/ cleaned = <<>>
           /\ group' = opts[exp_i]
           /\ clean_group' = IF OnGrid(dte) THEN cleaned ELSE clean_group
    /\ exp_i' = exp_i + 1
    /\ UNCHANGED <<pc, opts, recommendations, out_file, garch, np_random, cfg, res_df,
                   reclean_group, p_otm_dict, svi_params, rec, optimizer,
                   sim_call, sim_prices, sim_prices_again,
                   daily, intraday, current_price, zone_width, recluster_df>>
    /\ UNCHANGED <<mcVars, bridgeVars, deltaVars>>

\* one full pass of the loop body: clean, fit, simulate, probabilities, select;
\* nothing in the body catches an exception, so one raised by select_strike
\* leaves main
ProcessExpiry ==
    /\ pc = "run_loop"
    /\ exp_i <= Len(opts)
    /\ LET dte == opts[exp_i][1].dte
           cleaned == clean_options(opts[exp_i], cfg.min_oi, MinMidDefault)
           filled == FillIv(cleaned)
           days == IF dte = 0 THEN 1 ELSE dte
           n_days == Max(dte, 1)
           paths == simulate_paths(garch, n_days, RunPaths, current_price, np_random)
           table == ProbabilityTable(filled, paths, days,
                                     SimulationVol(filled, current_price, garch))
       IN  /\ OnGrid(dte)
           /\ cleaned # <<>>
           /\ group' = opts[exp_i]
           /\ clean_group' = filled
           /\ \E res \in (IF Len(filled) < MinFitQuotes THEN {None}
                          ELSE least_squares(Ivs(filled))) :
                 /\ optimizer' = res
                 /\ svi_params' = fit_svi(Ivs(filled), res)
           /\ sim_call' = [n_days |-> n_days, n_paths |-> RunPaths,
                           current_price |-> current_price]
           /\ sim_prices' = paths
           /\ np_random' = RngAdvance(np_random, RunPaths * n_days)
           /\ p_otm_dict' = table
           /\ \E out \in select_strike(filled, table, res_df, cfg, svi_params') :
                 /\ rec' = out
                 /\ IF out.kind = "IndexError"
                    THEN /\ pc' = "run_aborted"
                         /\ UNCHANGED <<exp_i, recommendations>>
                    ELSE /\ pc' = pc
                         /\ exp_i' = exp_i + 1
                         /\ recommendations' =
                               IF out = None THEN recommendations
                               ELSE Append(recommendations, out.best @@ [dte |-> dte])
    /\ UNCHANGED <<opts, out_file, garch, cfg, res_df, reclean_group, sim_prices_again,
                   daily, intraday, current_price, zone_width, recluster_df>>
    /\ UNCHANGED <<mcVars, bridgeVars, deltaVars>>

\* after the loop: json.dump(recommendations, f, ...)
WriteOut ==
    /\ pc = "run_loop"
    /\ exp_i > Len(opts)
    /\ out_file' = recommendations
    /\ pc' = "run_done"
    /\ UNCHANGED <<opts, exp_i, recommendations>>
    /\ UNCHANGED <<optVars, simVars, fitVars, resVars, mcVars, bridgeVars, deltaVars>>

NextRun == SkipExpiry \/ ProcessExpiry \/ WriteOut

SpecRun == InitRun /\ [][NextRun]_vars

(***************************************************************************)
(* Claims about the analysis run (checked under SpecRun).                  *)
(***************************************************************************)
\* C20: a failure raised while one expiry is processed does not abort the run:
\* every expiry of the chain is gone through and the recommendations of the
\* others are written out.
C20_FailureSkipsOneExpiry ==
    /\ pc # "run_aborted"
    /\ pc = "run_done" => (exp_i = Len(opts) + 1 /\ out_file = recommendations)

(***************************************************************************)
(* cli.py: main from the history check to the written file.                *)
(***************************************************************************)
\* if len(daily) < 252
MinHistory == 252

\* the rows of a run that survive daily[(close > 0) & (prev_close > 0)] and the
\* dropna on log_ret: none of a run without a positive close, and not the row
\* whose previous close is missing or not positive
UsableRows(runs, i) ==
    IF runs[i].close <= 0 THEN 0
    ELSE IF i = 1 \/ runs[i - 1].close <= 0 THEN runs[i].n - 1
    ELSE runs[i].n

\* daily after lines 55-59: the usable rows of each run, runs left empty dropped
RECURSIVE FilterDailyFrom(_, _)
FilterDailyFrom(runs, i) ==
    IF i > Len(runs) THEN <<>>
    ELSE (IF UsableRows(runs, i) > 0
          THEN <<[runs[i] EXCEPT !.n = UsableRows(runs, i)]>> ELSE <<>>)
         \o FilterDailyFrom(runs, i + 1)

FilterDaily(runs) == FilterDailyFrom(runs, 1)

\* histories of runs of 1, 126 and 252 bars, with and without a positive close
MainHistories ==
    SeqsUpTo([n : {1, 126, 252}, high : {101300}, close : {0, 99000}], MaxRuns) \ {<<>>}

InitMain ==
    /\ pc = "main_start"
    /\ current_price \in SpotSet
    /\ opts \in Chains(current_price)
    /\ daily \in MainHistories
    /\ intraday = <<>>
    /\ np_random \in {0, 7}
    /\ exp_i = 0
    /\ recommendations = <<>>
    /\ out_file = None
    /\ garch = None
    /\ cfg = Config
    /\ res_df = <<>>
    /\ group = <<>>
    /\ clean_group = <<>>
    /\ reclean_group = <<>>
    /\ p_otm_dict = <<>>
    /\ svi_params = None
    /\ rec = None
    /\ optimizer = None
    /\ sim_call = None
    /\ sim_prices = <<>>
    /\ sim_prices_again = <<>>
    /\ zone_width = ResZoneWidthDefault
    /\ recluster_df = <<>>
    /\ McIdle
    /\ BridgeIdle
    /\ DeltaIdle

\* main, lines 55-86: filter the history; on fewer than 252 rows print
\* "Error: Insufficient daily data" and return; else detect resistance, fit the
\* GARCH model and enter the loop
StartRun ==
    /\ pc = "main_start"
    /\ daily' = FilterDaily(daily)
    /\ IF BarCount(daily', Len(daily')) < MinHistory
       THEN /\ pc' = "main_returned"
            /\ UNCHANGED <<res_df, garch, exp_i>>
       ELSE /\ res_df' = detect_resistance(daily', intraday, current_price, zone_width)
            /\ garch' \in GarchSet
            /\ exp_i' = 1
            /\ pc' = "run_loop"
    /\ UNCHANGED <<opts, recommendations, out_file, np_random, cfg, group, clean_group,
                   reclean_group, p_otm_dict, svi_params, rec, optimizer, sim_call,
                   sim_prices, sim_prices_again, intraday, current_price, zone_width,
                   recluster_df>>
    /\ UNCHANGED <<mcVars, bridgeVars, deltaVars>>

NextMain == StartRun \/ SkipExpiry \/ ProcessExpiry \/ WriteOut

SpecMain == InitMain /\ [][NextMain]_vars

(***************************************************************************)
(* Claims about the history check of main (checked under SpecMain).        *)
(***************************************************************************)
\* how main has ended: by an exception leaving it, or by a plain return
MainRaised == pc = "run_aborted"

MainReturned == pc \in {"main_returned", "run_done"}

\* C21: with fewer than 252 usable return observations no volatility model is
\* fitted, no expiry is processed, no recommendation is produced or written, and
\* main ends with an error (an exception reaching the caller), not with a plain
\* return.
C21_ShortHistoryIsFatalError ==
    (pc # "main_start" /\ BarCount(daily, Len(daily)) < MinHistory) =>
        /\ garch = None
        /\ exp_i = 0
        /\ group = <<>>
        /\ recommendations = <<>>
        /\ out_file = None
        /\ ~MainReturned

(***************************************************************************)
(* greeks.py: calculate_delta applied to bounded arguments.                *)
(***************************************************************************)
\* spot, strike, time to maturity in days (zero and negative included) and vol in
\* percent (zero and negative included)
DeltaArgs ==
    [spot : {95000, 100000, 110000}, strike : {100000, 105000},
     days : {-7, 0, 1, 30}, vol : {-20, 0, 1, 30, 150}]

InitDelta ==
    /\ pc = "delta_ready"
    /\ delta_args \in DeltaArgs
    /\ delta = None
    /\ McIdle
    /\ OptIdle
    /\ BridgeIdle
    /\ ResIdle
    /\ SimIdle
    /\ FitIdle
    /\ RunIdle

\* delta = calculate_delta(spot, K, T_years, risk_free=0.04, vol=model_iv)
CalcDelta ==
    /\ pc = "delta_ready"
    /\ delta' = calculate_delta(delta_args.spot, delta_args.strike, delta_args.days,
                                delta_args.vol)
    /\ pc' = "delta_done"
    /\ UNCHANGED delta_args
    /\ UNCHANGED <<mcVars, optVars, bridgeVars, resVars, simVars, fitVars, runVars>>

NextDelta == CalcDelta

SpecDelta == InitDelta /\ [][NextDelta]_vars

(***************************************************************************)
(* Claims about calculate_delta (checked under SpecDelta).                 *)
(***************************************************************************)
\* the divisor of d1: vol * sqrt(time_to_maturity)
D1Divisor == delta_args.vol * SqrtYears(delta_args.days)

\* C22: calculate_delta returns exactly 0 whenever time-to-expiry <= 0, whatever
\* spot, strike and volatility are, spot > strike included; returns 1 if
\* spot > strike else 0 whenever time-to-expiry > 0 and volatility <= 0, so 0 at
\* spot == strike; the d1 quotient is only formed with a non-zero divisor; and
\* the result always lies in [0, 1].
C22_DeltaEdgeCases ==
    pc = "delta_done" =>
        /\ delta_args.days <= 0 => delta = 0
        /\ (delta_args.days > 0 /\ delta_args.vol <= 0) =>
               delta = (IF delta_args.spot > delta_args.strike THEN 1000 ELSE 0)
        /\ (delta_args.days > 0 /\ delta_args.vol > 0) => D1Divisor # 0
        /\ delta \in 0..1000

\* C22 witness: expired, spot above strike, non-positive volatility, delta 0
C22_Witness ==
    /\ pc = "delta_done"
    /\ delta_args.days <= 0
    /\ delta_args.spot > delta_args.strike
    /\ delta_args.vol <= 0
    /\ delta = 0

\* C22 witness of the step: time left, zero volatility, spot at the strike, 0
C22_WitnessAtStrike ==
    /\ pc = "delta_done"
    /\ delta_args.days > 0
    /\ delta_args.vol = 0
    /\ delta_args.spot = delta_args.strike
    /\ delta = 0

\* C22 witness of the smooth branch: a delta strictly between 0 and 1
C22_WitnessInterior ==
    /\ pc = "delta_done"
    /\ delta_args.days > 0
    /\ delta_args.vol > 0
    /\ delta > 0
    /\ delta < 1000

(***************************************************************************)
(* Claims about the order of the probabilities (checked under SpecBreach). *)
(***************************************************************************)
\* the paths that end above the strike: final_prices > strike
ItmPaths == {i \in 1..Len(prices) : prices[i][Len(prices[i])] > strike}

\* what path i adds to total_touch_prob in the call made
TouchTerm(i) == PathTouch(prices[i], strike, dte_days, VolAnnualSq(vol_daily))

\* C23: for positive prices, T_years > 0 and daily volatility >= 0,
\* calculate_probabilities returns 1 - p_otm <= p_touch <= 1: every path that
\* ends above the strike has its discrete maximum at or above the strike and
\* adds 1, and every path that never reaches the strike adds a bridge
\* probability in [0, 1].
C23_TouchAtLeastItm ==
    pc = "mc_done" =>
        /\ 1000 - probs.p_otm <= probs.p_touch
        /\ probs.p_touch <= 1000
        /\ \A i \in ItmPaths : PathMax(prices[i]) >= strike /\ TouchTerm(i) = 1000
        /\ \A i \in 1..Len(prices) : PathMax(prices[i]) < strike => TouchTerm(i) \in 0..1000

\* C23 witness: one path ends above the strike, the other stays below it with a
\* bridge probability strictly between 0 and 1, and p_touch lies strictly
\* between 1 - p_otm and 1
C23_Witness ==
    /\ pc = "mc_done"
    /\ Len(prices) = 2
    /\ Cardinality(ItmPaths) = 1
    /\ \E i \in 1..2 : /\ PathMax(prices[i]) < strike
                         /\ TouchTerm(i) > 0
                         /\ TouchTerm(i) < 1000
    /\ 1000 - probs.p_otm < probs.p_touch
    /\ probs.p_touch < 1000

\* C23 witness at zero volatility: a path ending above the strike still adds 1
C23_WitnessZeroVol ==
    /\ pc = "mc_done"
    /\ vol_daily = 0
    /\ ItmPaths # {}
    /\ 1000 - probs.p_otm = probs.p_touch
    /\ probs.p_touch > 0

====
